---- MODULE Spec2Model ----
(***************************************************************************)
(* The iterative DNS resolver of dnsresolver.py (iterative_dns_lookup,     *)
(* extract_next_nameservers, send_dns_query, resolve_ns_name) and the      *)
(* worker pool of dns_stress_test.py, as a state machine.                  *)
(*                                                                         *)
(* Every run r of iterative_dns_lookup owns its local variables (they are  *)
(* Python locals of the call): next_ns_list[r], stage[r], ns_ip[r] and,    *)
(* inside extract_next_nameservers, ns_names[r], additional_a[r],          *)
(* ns_ips[r].  The servers and the system resolver are the environment:    *)
(* what a transport call or a fallback call returns is an input of the     *)
(* action that models the return of the call.                              *)
(*                                                                         *)
(*   Spec      one run against the network: every call returns anything    *)
(*   FairSpec  Spec, the run never stopping while it has a step to take    *)
(*   MockSpec  one pooled run against a mocked network, where a server     *)
(*             replies the same to every query                             *)
(*   MockFairSpec  MockSpec, the run never stopping while it has a step    *)
(*   PoolSpec  NumRequests pooled runs interleaved against a mocked        *)
(*             network                                                     *)
(*   StressSpec  StressRequests lookups, more than the executor has        *)
(*             workers, each lookup one step from its call to its return   *)
(*                                                                         *)
(* calls[r], fallbacks[r] and delegations[r] count the calls and the       *)
(* delegations of a run and stop counting at MaxCalls, MaxFallbacks and    *)
(* MaxDelegations: a value below the bound is exact.                       *)
(***************************************************************************)
EXTENDS Integers, Sequences, FiniteSets, TLC

\* ------------------------------------------------------------------ bounds

\* The transport calls of a run are counted up to MaxCalls.
MaxCalls == 6
\* The fallback calls of a run are counted up to MaxFallbacks.
MaxFallbacks == 1
\* The delegations a run follows are counted up to MaxDelegations.
MaxDelegations == 2
\* Lookups submitted by run_stress_test in the pool specification.
NumRequests == 2
\* Lookups submitted by run_stress_test in the stress specification: more
\* than the executor has workers.
StressRequests == 11

\* ------------------------------------------------------- program constants

\* list(ROOT_SERVERS.keys()): dict keys in insertion order.
ROOT_SERVERS ==
    << "198.41.0.4", "199.9.14.201", "192.33.4.12", "199.7.91.13", "192.203.230.10" >>

\* ThreadPoolExecutor(max_workers=10)
max_workers == 10

\* The rcode values: dns.rcode.NOERROR, dns.rcode.NXDOMAIN, and one other.
NOERROR == "NOERROR"
NXDOMAIN == "NXDOMAIN"
SERVFAIL == "SERVFAIL"

\* --------------------------------------------------------------- sequences

RECURSIVE Concat(_)
\* The concatenation of a sequence of sequences.
Concat(ss) == IF ss = << >> THEN << >> ELSE Head(ss) \o Concat(Tail(ss))

\* The sequences over S of length lo..hi.
SeqsOf(S, lo, hi) == UNION { [1..n -> S] : n \in lo..hi }

\* ------------------------------------------------------------------- names

\* A wire name is its sequence of labels (the root name is << >>); its text
\* is a sequence of tokens, a label or the separator ".".
RECURSIVE to_text(_)
\* dns.name.Name.to_text() of an absolute name: every label followed by ".",
\* and "." alone for the root.
to_text(name) ==
    IF name = << >> THEN << "." >>
    ELSE IF Len(name) = 1 THEN << name[1], "." >>
    ELSE << name[1], "." >> \o to_text(Tail(name))

RECURSIVE rstrip_dot(_)
\* str.rstrip('.'): every trailing "." removed.
rstrip_dot(text) ==
    IF text # << >> /\ text[Len(text)] = "."
    THEN rstrip_dot(SubSeq(text, 1, Len(text) - 1))
    ELSE text

\* rr.target.to_text().rstrip('.') and rrset.name.to_text().rstrip('.')
Normalize(name) == rstrip_dot(to_text(name))

\* ----------------------------------------------------------- the universe

\* Addresses a delegation or the system resolver can name.
A1 == "1.2.3.4"
A2 == "9.9.9.9"
\* Address records an answer section can hold.
Rec1 == "5.6.7.8"
Rec2 == "5.6.7.9"

NameX == << "x" >>
NameY == << "y" >>
NameZ == << "z" >>
RootName == << >>

\* The lookups' targets (dns_stress_test.DOMAINS).
ValidDomain == "google.com"
NoSuchDomain == "nonexistentdomain.xyz"
SlowDomain == "slowwebsite.example"
Domains == { ValidDomain, NoSuchDomain, SlowDomain }

\* Authority sections: lists of rrsets, an NS rrset holding targets.  The
\* parser of dns.query.udp gathers the records of one owner and type in one
\* rrset, without repetition.
NS(targets) == [rdtype |-> "NS", targets |-> targets]
SOA == [rdtype |-> "SOA", targets |-> << >>]
AuthoritySections ==
    { << >>, << SOA >>, << NS(<< NameX >>) >>, << NS(<< NameX, NameY >>) >>,
      << SOA, NS(<< NameY >>) >> }

\* Additional sections: lists of rrsets, an A rrset holding addresses.
A(name, addresses) == [rdtype |-> "A", name |-> name, addresses |-> addresses]
AAAA(name) == [rdtype |-> "AAAA", name |-> name, addresses |-> << >>]
AdditionalSections ==
    { << >>, << A(NameX, << A1 >>) >>, << A(NameX, << A1, A2 >>) >>,
      << A(NameX, << A1 >>), A(NameY, << A2 >>) >>, << A(NameZ, << A2 >>) >>,
      << AAAA(NameX) >>, << A(NameZ, << A2 >>), A(NameX, << A1 >>) >> }

\* Answer sections: lists of rrsets, each a list of records.
AnswerSections == { << >>, << << Rec1 >> >>, << << Rec1 >>, << Rec2 >> >> }

\* What send_dns_query returns when dns.query.udp raises: None.
None == [rcode |-> "None", answer |-> << >>, authority |-> << >>, additional |-> << >>]

\* The parsed responses dns.query.udp can return.
Responses ==
    [rcode : { NOERROR, NXDOMAIN, SERVFAIL }, answer : AnswerSections,
     authority : AuthoritySections, additional : AdditionalSections]

\* What resolve_ns_name can return: the resolved addresses, or [] on any
\* exception.
FallbackResults == { << >>, << A1 >>, << A2, A1 >> }

\* ------------------------------------------------ extract_next_nameservers

RECURSIVE rrset_targets(_)
\* for rr in rrset: ns_names.append(rr.target.to_text().rstrip('.'))
rrset_targets(targets) ==
    IF targets = << >> THEN << >>
    ELSE << Normalize(Head(targets)) >> \o rrset_targets(Tail(targets))

RECURSIVE extract_ns_names(_)
\* The first loop: the normalized targets of the NS rrsets of the authority
\* section, in encounter order.
extract_ns_names(authority) ==
    IF authority = << >> THEN << >>
    ELSE (IF Head(authority).rdtype = "NS"
          THEN rrset_targets(Head(authority).targets) ELSE << >>)
         \o extract_ns_names(Tail(authority))

\* additional_a[name] = a_records: a dict assignment, which replaces the
\* entry of a name already present.
dict_set(d, key, value) ==
    [k \in DOMAIN d \cup { key } |-> IF k = key THEN value ELSE d[k]]

RECURSIVE extract_additional_a(_, _)
\* The second loop: the dict from normalized owner name to address list of
\* the A rrsets of the additional section, starting from d.
extract_additional_a(additional, d) ==
    IF additional = << >> THEN d
    ELSE extract_additional_a(
             Tail(additional),
             IF Head(additional).rdtype = "A"
             THEN dict_set(d, Normalize(Head(additional).name),
                           Head(additional).addresses)
             ELSE d)

\* A faulty variant of has_glue: the hostname is looked up with its trailing dot.
has_glue_unnormalized(ns_name, d) == (ns_name \o << "." >>) \in DOMAIN d

\* `if normalized_ns in additional_a` for the hostname ns_name.
has_glue(ns_name, d) == rstrip_dot(ns_name) \in DOMAIN d

\* ------------------------------------------------------------------- state

VARIABLES
    pc,            \* where each run is: "pending", "start", "loop", "query",
                   \* "extract", "fallback", "done"
    domain,        \* the domain each run resolves
    next_ns_list,  \* the candidate queue of each run
    stage,         \* the stage label of each run
    ns_names,      \* extract_next_nameservers: the NS hostnames
    additional_a,  \* extract_next_nameservers: the glue dict
    ns_ips,        \* extract_next_nameservers: the addresses found so far
    idx,           \* extract_next_nameservers: position of the third loop
    outcome,       \* the terminal outcomes each run has reported
    records,       \* the records a [SUCCESS] line was printed for
    ns_ip,         \* the server each run queried last
    calls,         \* history: send_dns_query calls (up to MaxCalls)
    last,          \* history: how the last transport call was classified
    fallbacks,     \* history: resolve_ns_name calls (up to MaxFallbacks)
    step_fallbacks,\* history: resolve_ns_name calls of this delegation step
    delegations,   \* history: delegations followed (up to MaxDelegations)
    stage_queue,   \* history: the queue the current stage started with
    stage_calls,   \* history: send_dns_query calls since the stage started
    complete,      \* run_stress_test printed [STRESS TEST COMPLETE]
    world          \* the mocked servers and resolver, where the run has them

vars ==
    << pc, domain, next_ns_list, stage, ns_names, additional_a, ns_ips, idx,
       outcome, records, ns_ip, calls, last, fallbacks, step_fallbacks,
       delegations, stage_queue, stage_calls, complete, world >>

\* The runs of this behaviour.
Runs == DOMAIN pc

\* The locals of extract_next_nameservers.
extract_vars == << ns_names, additional_a, ns_ips, idx >>

\* What is recorded of the stages of a run.
stage_vars == << delegations, stage_queue, stage_calls >>

\* The state of one run before iterative_dns_lookup is entered.
InitRuns(ids, at, targets) ==
    /\ pc = [r \in ids |-> at]
    /\ domain \in [ids -> targets]
    /\ next_ns_list = [r \in ids |-> << >>]
    /\ stage = [r \in ids |-> "ROOT"]
    /\ ns_names = [r \in ids |-> << >>]
    /\ additional_a = [r \in ids |-> << >>]
    /\ ns_ips = [r \in ids |-> << >>]
    /\ idx = [r \in ids |-> 1]
    /\ outcome = [r \in ids |-> { }]
    /\ records = [r \in ids |-> << >>]
    /\ ns_ip = [r \in ids |-> "unbound"]
    /\ calls = [r \in ids |-> 0]
    /\ last = [r \in ids |-> "none"]
    /\ fallbacks = [r \in ids |-> 0]
    /\ step_fallbacks = [r \in ids |-> 0]
    /\ delegations = [r \in ids |-> 0]
    /\ stage_queue = [r \in ids |-> << >>]
    /\ stage_calls = [r \in ids |-> 0]
    /\ complete = FALSE

\* python3 dnsresolver.py iterative <domain>: one run, against the network.
Init == InitRuns({ 1 }, "start", { ValidDomain }) /\ world = << >>

\* ---------------------------------------------------- iterative_dns_lookup

\* A faulty variant of NextStage: the label wraps around after AUTH.
NextStage_Cycles(s) ==
    IF s = "ROOT" THEN "TLD" ELSE IF s = "TLD" THEN "AUTH" ELSE "ROOT"

\* A faulty variant of NextStage: the label TLD is skipped.
NextStage_SkipsTLD(s) == IF s = "ROOT" THEN "AUTH" ELSE IF s = "TLD" THEN "AUTH" ELSE s

\* The stage label after a delegation was followed.
NextStage(s) == IF s = "ROOT" THEN "TLD" ELSE IF s = "TLD" THEN "AUTH" ELSE s

\* The terminal outcomes of a run: [SUCCESS] lines, the NXDOMAIN error, or
\* one of the two "Resolution failed." errors.
Outcomes == { "success", "nonexistent", "failure" }

\* The outcome `how` is printed and iterative_dns_lookup returns.
Finish(r, how) ==
    /\ pc' = [pc EXCEPT ![r] = "done"]
    /\ outcome' = [outcome EXCEPT ![r] = @ \cup { how }]

\* A faulty variant of DropCandidate: the failed candidate is put back at the end of
\* the queue.
DropCandidate_Requeue(r) ==
    /\ next_ns_list' = [next_ns_list EXCEPT
                          ![r] = Tail(next_ns_list[r]) \o << Head(next_ns_list[r]) >>]
    /\ pc' = [pc EXCEPT ![r] = "loop"]

\* A faulty variant of DropCandidate: the queue is one list shared by all runs.
DropCandidate_Shared(r) ==
    /\ next_ns_list' = [q \in Runs |->
                          IF q = r \/ (pc[q] \in { "loop", "query" } /\ next_ns_list[q] # << >>)
                          THEN Tail(next_ns_list[q]) ELSE next_ns_list[q]]
    /\ pc' = [pc EXCEPT ![r] = "loop"]

\* A faulty variant of DropCandidate: the failed candidate stays at the head
\* of the queue and is tried again.
DropCandidate_Retries(r) ==
    /\ next_ns_list' = next_ns_list
    /\ pc' = [pc EXCEPT ![r] = "loop"]

\* next_ns_list = next_ns_list[1:]; continue
DropCandidate(r) ==
    /\ next_ns_list' = [next_ns_list EXCEPT ![r] = Tail(next_ns_list[r])]
    /\ pc' = [pc EXCEPT ![r] = "loop"]

\* A stage starts with the queue `queue`, no candidate of it queried yet.
StartStage(r, queue) ==
    /\ stage_queue' = [stage_queue EXCEPT ![r] = queue]
    /\ stage_calls' = [stage_calls EXCEPT ![r] = 0]

\* A faulty variant of Enter: the first root server is left out of the queue.
Enter_SkipsFirst(r) ==
    /\ pc[r] = "start"
    /\ next_ns_list' = [next_ns_list EXCEPT ![r] = Tail(ROOT_SERVERS)]
    /\ stage' = [stage EXCEPT ![r] = "ROOT"]
    /\ pc' = [pc EXCEPT ![r] = "loop"]
    /\ StartStage(r, ROOT_SERVERS)
    /\ UNCHANGED << domain, extract_vars, outcome, records, ns_ip, calls,
                    last, fallbacks, step_fallbacks, complete, world, delegations >>

\* next_ns_list = list(ROOT_SERVERS.keys()); stage = "ROOT"
Enter(r) ==
    /\ pc[r] = "start"
    /\ next_ns_list' = [next_ns_list EXCEPT ![r] = ROOT_SERVERS]
    /\ stage' = [stage EXCEPT ![r] = "ROOT"]
    /\ pc' = [pc EXCEPT ![r] = "loop"]
    /\ StartStage(r, ROOT_SERVERS)
    /\ UNCHANGED << domain, extract_vars, outcome, records, ns_ip, calls,
                    last, fallbacks, step_fallbacks, complete, world, delegations >>

\* `while next_ns_list:` is false: print "[ERROR] Resolution failed."
Exhausted(r) ==
    /\ pc[r] = "loop"
    /\ next_ns_list[r] = << >>
    /\ Finish(r, "failure")
    /\ UNCHANGED << domain, next_ns_list, stage, extract_vars, records, ns_ip, calls, last, fallbacks, step_fallbacks, complete, world, stage_vars >>

\* A faulty variant of Query: the next candidate is queried while the
\* delegation step of the last reply is still going on.
Query_Pipelined(r) ==
    /\ pc[r] \in { "loop", "extract" }
    /\ next_ns_list[r] # << >>
    /\ pc' = [pc EXCEPT ![r] = "query"]
    /\ ns_ip' = [ns_ip EXCEPT ![r] = Head(next_ns_list[r])]
    /\ calls' = [calls EXCEPT ![r] = IF @ < MaxCalls THEN @ + 1 ELSE @]
    /\ stage_calls' = [stage_calls EXCEPT ![r] = IF @ < MaxCalls THEN @ + 1 ELSE @]
    /\ UNCHANGED << domain, next_ns_list, stage, extract_vars, outcome,
                    records, last, fallbacks, step_fallbacks, complete, world,
                    delegations, stage_queue >>

\* ns_ip = next_ns_list[0]; send_dns_query(ns_ip, domain) is called
Query(r) ==
    /\ pc[r] = "loop"
    /\ next_ns_list[r] # << >>
    /\ pc' = [pc EXCEPT ![r] = "query"]
    /\ ns_ip' = [ns_ip EXCEPT ![r] = Head(next_ns_list[r])]
    /\ calls' = [calls EXCEPT ![r] = IF @ < MaxCalls THEN @ + 1 ELSE @]
    /\ stage_calls' = [stage_calls EXCEPT ![r] = IF @ < MaxCalls THEN @ + 1 ELSE @]
    /\ UNCHANGED << domain, next_ns_list, stage, extract_vars, outcome,
                    records, last, fallbacks, step_fallbacks, complete, world,
                    delegations, stage_queue >>

\* send_dns_query returned None
TransportFailure(r, response) ==
    /\ pc[r] = "query"
    /\ response = None
    /\ DropCandidate(r)
    /\ last' = [last EXCEPT ![r] = "TransportFailure"]
    /\ UNCHANGED << domain, stage, extract_vars, outcome, records, ns_ip, calls, fallbacks, step_fallbacks, complete, world, stage_vars >>

\* rcode != NOERROR and rcode != NXDOMAIN
ProtocolError(r, response) ==
    /\ pc[r] = "query"
    /\ response # None
    /\ response.rcode # NOERROR
    /\ response.rcode # NXDOMAIN
    /\ DropCandidate(r)
    /\ last' = [last EXCEPT ![r] = "ProtocolError"]
    /\ UNCHANGED << domain, stage, extract_vars, outcome, records, ns_ip, calls, fallbacks, step_fallbacks, complete, world, stage_vars >>

\* A faulty variant of NonExistent: NXDOMAIN is handled like any other error code.
NonExistent_Rotates(r, response) ==
    /\ pc[r] = "query"
    /\ response # None
    /\ response.rcode = NXDOMAIN
    /\ DropCandidate(r)
    /\ last' = [last EXCEPT ![r] = "NonExistent"]
    /\ UNCHANGED << domain, stage, extract_vars, outcome, records, ns_ip,
                    calls, fallbacks, step_fallbacks, complete, world, stage_vars >>

\* rcode == NXDOMAIN: print and return
NonExistent(r, response) ==
    /\ pc[r] = "query"
    /\ response # None
    /\ response.rcode # NOERROR
    /\ response.rcode = NXDOMAIN
    /\ Finish(r, "nonexistent")
    /\ last' = [last EXCEPT ![r] = "NonExistent"]
    /\ UNCHANGED << domain, next_ns_list, stage, extract_vars, records, ns_ip, calls, fallbacks, step_fallbacks, complete, world, stage_vars >>

\* A faulty variant of Success: the records are printed but the loop is not left.
Success_NoReturn(r, response) ==
    /\ pc[r] = "query"
    /\ response # None
    /\ response.rcode = NOERROR
    /\ response.answer # << >>
    /\ outcome' = [outcome EXCEPT ![r] = @ \cup { "success" }]
    /\ records' = [records EXCEPT ![r] = Concat(response.answer)]
    /\ DropCandidate(r)
    /\ last' = [last EXCEPT ![r] = "Success"]
    /\ UNCHANGED << domain, stage, extract_vars, ns_ip, calls, fallbacks,
                    step_fallbacks, complete, world, stage_vars >>

\* A faulty variant of Success: the answer section is looked at before the
\* response code.
Success_AnyCode(r, response) ==
    /\ pc[r] = "query"
    /\ response # None
    /\ response.answer # << >>
    /\ Finish(r, "success")
    /\ records' = [records EXCEPT ![r] = Concat(response.answer)]
    /\ last' = [last EXCEPT ![r] = "Success"]
    /\ UNCHANGED << domain, next_ns_list, stage, extract_vars, ns_ip, calls,
                    fallbacks, step_fallbacks, complete, world, stage_vars >>

\* response.answer is non-empty: print every record and return
Success(r, response) ==
    /\ pc[r] = "query"
    /\ response # None
    /\ response.rcode = NOERROR
    /\ response.answer # << >>
    /\ Finish(r, "success")
    /\ records' = [records EXCEPT ![r] = Concat(response.answer)]
    /\ last' = [last EXCEPT ![r] = "Success"]
    /\ UNCHANGED << domain, next_ns_list, stage, extract_vars, ns_ip, calls,
                    fallbacks, step_fallbacks, complete, world, stage_vars >>

RECURSIVE additional_owners(_)
\* The normalized owner names of the A rrsets of an additional section.
additional_owners(additional) ==
    IF additional = << >> THEN << >>
    ELSE (IF Head(additional).rdtype = "A"
          THEN << Normalize(Head(additional).name) >> ELSE << >>)
         \o additional_owners(Tail(additional))

\* A faulty variant of Delegation: the owner of every address record of the
\* additional section is taken for a nameserver.
Delegation_TrustsAdditional(r, response) ==
    /\ pc[r] = "query"
    /\ response # None
    /\ response.rcode = NOERROR
    /\ response.answer = << >>
    /\ ns_names' = [ns_names EXCEPT
                      ![r] = extract_ns_names(response.authority)
                                 \o additional_owners(response.additional)]
    /\ additional_a' =
           [additional_a EXCEPT ![r] = extract_additional_a(response.additional, << >>)]
    /\ ns_ips' = [ns_ips EXCEPT ![r] = << >>]
    /\ idx' = [idx EXCEPT ![r] = 1]
    /\ step_fallbacks' = [step_fallbacks EXCEPT ![r] = 0]
    /\ pc' = [pc EXCEPT ![r] = "extract"]
    /\ last' = [last EXCEPT ![r] = "Delegation"]
    /\ UNCHANGED << domain, next_ns_list, stage, outcome, records, ns_ip, calls,
                    fallbacks, complete, world, stage_vars >>

\* No answer: extract_next_nameservers(response) is entered and its first
\* two loops run.
Delegation(r, response) ==
    /\ pc[r] = "query"
    /\ response # None
    /\ response.rcode = NOERROR
    /\ response.answer = << >>
    /\ ns_names' = [ns_names EXCEPT ![r] = extract_ns_names(response.authority)]
    /\ additional_a' =
           [additional_a EXCEPT ![r] = extract_additional_a(response.additional, << >>)]
    /\ ns_ips' = [ns_ips EXCEPT ![r] = << >>]
    /\ idx' = [idx EXCEPT ![r] = 1]
    /\ step_fallbacks' = [step_fallbacks EXCEPT ![r] = 0]
    /\ pc' = [pc EXCEPT ![r] = "extract"]
    /\ last' = [last EXCEPT ![r] = "Delegation"]
    /\ UNCHANGED << domain, next_ns_list, stage, outcome, records, ns_ip, calls, fallbacks, complete, world, stage_vars >>

\* Third loop, `if normalized_ns in additional_a`: the glue addresses are
\* appended.
GlueHit(r) ==
    /\ pc[r] = "extract"
    /\ idx[r] <= Len(ns_names[r])
    /\ has_glue(ns_names[r][idx[r]], additional_a[r])
    /\ ns_ips' = [ns_ips EXCEPT
                    ![r] = @ \o additional_a[r][rstrip_dot(ns_names[r][idx[r]])]]
    /\ idx' = [idx EXCEPT ![r] = @ + 1]
    /\ UNCHANGED << pc, domain, next_ns_list, stage, ns_names, additional_a,
                    outcome, records, ns_ip, calls, last, fallbacks,
                    step_fallbacks, complete, world, stage_vars >>

\* Third loop, else branch: resolve_ns_name(ns_name) is called.
FallbackCall(r) ==
    /\ pc[r] = "extract"
    /\ idx[r] <= Len(ns_names[r])
    /\ ~has_glue(ns_names[r][idx[r]], additional_a[r])
    /\ pc' = [pc EXCEPT ![r] = "fallback"]
    /\ fallbacks' = [fallbacks EXCEPT ![r] = IF @ < MaxFallbacks THEN @ + 1 ELSE @]
    /\ step_fallbacks' = [step_fallbacks EXCEPT ![r] = @ + 1]
    /\ UNCHANGED << domain, next_ns_list, stage, extract_vars, outcome,
                    records, ns_ip, calls, last, complete, world, stage_vars >>

\* A faulty variant of FallbackReturn: after a failed resolution the hostnames
\* left are not processed.
FallbackReturn_GivesUp(r, fallback_ips) ==
    /\ pc[r] = "fallback"
    /\ ns_ips' = [ns_ips EXCEPT
                    ![r] = IF fallback_ips # << >> THEN @ \o fallback_ips ELSE @]
    /\ idx' = [idx EXCEPT
                 ![r] = IF fallback_ips # << >> THEN @ + 1 ELSE Len(ns_names[r]) + 1]
    /\ pc' = [pc EXCEPT ![r] = "extract"]
    /\ UNCHANGED << domain, next_ns_list, stage, ns_names, additional_a,
                    outcome, records, ns_ip, calls, last, fallbacks,
                    step_fallbacks, complete, world, stage_vars >>

\* A faulty variant of FallbackReturn: an address already found is not added
\* again.
FallbackReturn_Dedups(r, fallback_ips) ==
    /\ pc[r] = "fallback"
    /\ ns_ips' = [ns_ips EXCEPT
                    ![r] = @ \o SelectSeq(fallback_ips,
                                          LAMBDA a : \A k \in 1..Len(ns_ips[r]) : ns_ips[r][k] # a)]
    /\ idx' = [idx EXCEPT ![r] = @ + 1]
    /\ pc' = [pc EXCEPT ![r] = "extract"]
    /\ UNCHANGED << domain, next_ns_list, stage, ns_names, additional_a,
                    outcome, records, ns_ip, calls, last, fallbacks,
                    step_fallbacks, complete, world, stage_vars >>

\* resolve_ns_name returned fallback_ips: `if fallback_ips:` extends ns_ips.
FallbackReturn(r, fallback_ips) ==
    /\ pc[r] = "fallback"
    /\ ns_ips' = [ns_ips EXCEPT
                    ![r] = IF fallback_ips # << >> THEN @ \o fallback_ips ELSE @]
    /\ idx' = [idx EXCEPT ![r] = @ + 1]
    /\ pc' = [pc EXCEPT ![r] = "extract"]
    /\ UNCHANGED << domain, next_ns_list, stage, ns_names, additional_a,
                    outcome, records, ns_ip, calls, last, fallbacks,
                    step_fallbacks, complete, world, stage_vars >>

\* The locals of extract_next_nameservers after it returned.
LeaveExtract(r) ==
    /\ ns_names' = [ns_names EXCEPT ![r] = << >>]
    /\ additional_a' = [additional_a EXCEPT ![r] = << >>]
    /\ ns_ips' = [ns_ips EXCEPT ![r] = << >>]
    /\ idx' = [idx EXCEPT ![r] = 1]
    /\ step_fallbacks' = [step_fallbacks EXCEPT ![r] = 0]

\* A faulty variant of NoNameservers: an empty delegation drops the candidate and the
\* loop goes on.
NoNameservers_Rotates(r) ==
    /\ pc[r] = "extract"
    /\ idx[r] > Len(ns_names[r])
    /\ ns_ips[r] = << >>
    /\ DropCandidate(r)
    /\ LeaveExtract(r)
    /\ UNCHANGED << domain, stage, outcome, records, ns_ip, calls, last,
                    fallbacks, complete, world, stage_vars >>

\* extract_next_nameservers returned an empty list:
\* print "[ERROR] No further nameservers found. Resolution failed."; return
NoNameservers(r) ==
    /\ pc[r] = "extract"
    /\ idx[r] > Len(ns_names[r])
    /\ ns_ips[r] = << >>
    /\ next_ns_list' = [next_ns_list EXCEPT ![r] = ns_ips[r]]
    /\ Finish(r, "failure")
    /\ LeaveExtract(r)
    /\ UNCHANGED << domain, stage, records, ns_ip, calls, last, fallbacks,
                    complete, world, stage_vars >>

\* A faulty variant of FollowDelegation: the addresses are appended to the candidates
\* left in the queue.
FollowDelegation_Appends(r) ==
    /\ pc[r] = "extract"
    /\ idx[r] > Len(ns_names[r])
    /\ ns_ips[r] # << >>
    /\ next_ns_list' = [next_ns_list EXCEPT ![r] = Tail(@) \o ns_ips[r]]
    /\ stage' = [stage EXCEPT ![r] = NextStage(stage[r])]
    /\ pc' = [pc EXCEPT ![r] = "loop"]
    /\ LeaveExtract(r)
    /\ delegations' = [delegations EXCEPT ![r] = IF @ < MaxDelegations THEN @ + 1 ELSE @]
    /\ StartStage(r, next_ns_list'[r])
    /\ UNCHANGED << domain, outcome, records, ns_ip, calls, last, fallbacks,
                    complete, world >>

\* A faulty variant of FollowDelegation: a third delegation is not followed,
\* the run fails.
FollowDelegation_DepthGuard(r) ==
    /\ pc[r] = "extract"
    /\ idx[r] > Len(ns_names[r])
    /\ ns_ips[r] # << >>
    /\ next_ns_list' = [next_ns_list EXCEPT ![r] = ns_ips[r]]
    /\ LeaveExtract(r)
    /\ IF delegations[r] < 2
       THEN /\ stage' = [stage EXCEPT ![r] = NextStage(stage[r])]
            /\ pc' = [pc EXCEPT ![r] = "loop"]
            /\ delegations' = [delegations EXCEPT ![r] = @ + 1]
            /\ StartStage(r, ns_ips[r])
            /\ UNCHANGED outcome
       ELSE /\ Finish(r, "failure")
            /\ UNCHANGED << stage, stage_vars >>
    /\ UNCHANGED << domain, records, ns_ip, calls, last, fallbacks,
                    complete, world >>

\* A faulty variant of FollowDelegation: the untried candidates stay in the
\* queue behind the new addresses.
FollowDelegation_KeepsUntried(r) ==
    /\ pc[r] = "extract"
    /\ idx[r] > Len(ns_names[r])
    /\ ns_ips[r] # << >>
    /\ next_ns_list' = [next_ns_list EXCEPT ![r] = ns_ips[r] \o Tail(@)]
    /\ stage' = [stage EXCEPT ![r] = NextStage(stage[r])]
    /\ pc' = [pc EXCEPT ![r] = "loop"]
    /\ LeaveExtract(r)
    /\ delegations' = [delegations EXCEPT ![r] = IF @ < MaxDelegations THEN @ + 1 ELSE @]
    /\ StartStage(r, ns_ips[r])
    /\ UNCHANGED << domain, outcome, records, ns_ip, calls, last, fallbacks,
                    complete, world >>

\* extract_next_nameservers returned addresses: they replace the queue and
\* the stage label advances.
FollowDelegation(r) ==
    /\ pc[r] = "extract"
    /\ idx[r] > Len(ns_names[r])
    /\ ns_ips[r] # << >>
    /\ next_ns_list' = [next_ns_list EXCEPT ![r] = ns_ips[r]]
    /\ stage' = [stage EXCEPT ![r] = NextStage(stage[r])]
    /\ pc' = [pc EXCEPT ![r] = "loop"]
    /\ LeaveExtract(r)
    /\ delegations' = [delegations EXCEPT ![r] = IF @ < MaxDelegations THEN @ + 1 ELSE @]
    /\ StartStage(r, next_ns_list'[r])
    /\ UNCHANGED << domain, outcome, records, ns_ip, calls, last, fallbacks,
                    complete, world >>

\* One step of run r: the transport call in flight returns one of replies,
\* the fallback call in flight one of resolved.
Step(r, replies, resolved) ==
    \/ Enter(r)
    \/ Exhausted(r)
    \/ Query(r)
    \/ \E response \in replies : TransportFailure(r, response)
    \/ \E response \in replies : ProtocolError(r, response)
    \/ \E response \in replies : NonExistent(r, response)
    \/ \E response \in replies : Success(r, response)
    \/ \E response \in replies : Delegation(r, response)
    \/ GlueHit(r)
    \/ FallbackCall(r)
    \/ \E fallback_ips \in resolved : FallbackReturn(r, fallback_ips)
    \/ NoNameservers(r)
    \/ FollowDelegation(r)

\* The replies of the network and of the system resolver: anything.
NetReplies == Responses \cup { None }

\* A step of the run against the network.
NetStep(r) == Step(r, NetReplies, FallbackResults)

Next ==
    \/ \E r \in Runs : Enter(r)
    \/ \E r \in Runs : Exhausted(r)
    \/ \E r \in Runs : Query(r)
    \/ \E r \in Runs : \E response \in NetReplies : TransportFailure(r, response)
    \/ \E r \in Runs : \E response \in NetReplies : ProtocolError(r, response)
    \/ \E r \in Runs : \E response \in NetReplies : NonExistent(r, response)
    \/ \E r \in Runs : \E response \in NetReplies : Success(r, response)
    \/ \E r \in Runs : \E response \in NetReplies : Delegation(r, response)
    \/ \E r \in Runs : GlueHit(r)
    \/ \E r \in Runs : FallbackCall(r)
    \/ \E r \in Runs : \E fallback_ips \in FallbackResults : FallbackReturn(r, fallback_ips)
    \/ \E r \in Runs : NoNameservers(r)
    \/ \E r \in Runs : FollowDelegation(r)

Spec == Init /\ [][Next]_vars

\* A sequential run takes its next step, and every call it waits for returns
\* (send_dns_query within TIMEOUT, resolve_ns_name within the resolver's
\* lifetime).
FairSpec == Spec /\ WF_vars(Next)

\* ------------------------------------------------- mocked servers, the pool

\* Replies of a mocked server.
ServFail == [rcode |-> SERVFAIL, answer |-> << >>, authority |-> << >>, additional |-> << >>]
NxDomain == [rcode |-> NXDOMAIN, answer |-> << >>, authority |-> << SOA >>, additional |-> << >>]
Answer == [rcode |-> NOERROR, answer |-> << << Rec1 >> >>, authority |-> << >>, additional |-> << >>]
Referral ==
    [rcode |-> NOERROR, answer |-> << >>, authority |-> << NS(<< NameX >>) >>,
     additional |-> << A(NameX, << A1 >>) >>]
HalfGlued ==
    [rcode |-> NOERROR, answer |-> << >>, authority |-> << NS(<< NameX, NameY >>) >>,
     additional |-> << A(NameX, << A1 >>) >>]
Unglued ==
    [rcode |-> NOERROR, answer |-> << >>, authority |-> << SOA, NS(<< NameY >>) >>,
     additional |-> << A(NameZ, << A2 >>) >>]
NoData == [rcode |-> NOERROR, answer |-> << >>, authority |-> << SOA >>, additional |-> << >>]
BothUnglued ==
    [rcode |-> NOERROR, answer |-> << >>, authority |-> << NS(<< NameX, NameY >>) >>,
     additional |-> << AAAA(NameX) >>]
StrayGlue ==
    [rcode |-> NOERROR, answer |-> << >>, authority |-> << NS(<< NameX >>) >>,
     additional |-> << A(NameZ, << A2 >>), A(NameX, << A1 >>) >>]

MockReplies ==
    { None, ServFail, NxDomain, Answer, Referral, HalfGlued, Unglued, NoData,
      BothUnglued, StrayGlue }

\* The servers a run can query.
Servers == { ROOT_SERVERS[i] : i \in 1..Len(ROOT_SERVERS) } \cup { A1, A2 }
\* The hostnames a run can ask the system resolver for.
Hostnames == { Normalize(NameX), Normalize(NameY) }

\* A mocked network: the first root replies `first`, every other root `rest`,
\* the servers A1 and A2 reply a1 and a2, and the resolver answers `resolver`.
MockWorld(first, rest, a1, a2, resolver) ==
    [servers |-> [s \in Servers |->
                    IF s = ROOT_SERVERS[1] THEN first
                    ELSE IF s = A1 THEN a1
                    ELSE IF s = A2 THEN a2
                    ELSE rest],
     resolver |-> resolver]

Worlds ==
    { MockWorld(first, rest, a1, a2, resolver) :
        first \in MockReplies, rest \in { None, ServFail, Referral },
        a1 \in { None, NxDomain, Answer, Referral },
        a2 \in { ServFail, Answer }, 
        resolver \in [Hostnames -> { << >>, << A2, A1 >> }] }

\* The mocked networks of the pool: only the first root and A1 vary.
PoolWorlds ==
    { MockWorld(first, None, a1, ServFail, [h \in Hostnames |-> << A2, A1 >>]) :
        first \in { None, ServFail, Referral, HalfGlued, NoData },
        a1 \in { None, Answer, Referral } }

\* The domains the lookups of the pool are drawn from.
PoolDomains == { ValidDomain, NoSuchDomain }

\* run_stress_test("iterative", 1) against a mocked network: one lookup
\* submitted to the executor.
MockInit ==
    /\ InitRuns({ 1 }, "pending", Domains)
    /\ world \in Worlds

\* run_stress_test("iterative", NumRequests): the lookups submitted to the
\* executor, each of a domain drawn by random.choice(DOMAINS), all against
\* the same mocked network.
PoolInit ==
    /\ InitRuns(1..NumRequests, "pending", PoolDomains)
    /\ world \in PoolWorlds

\* A faulty variant of WorkerStart: a thread is started for every lookup
\* submitted.
WorkerStart_NoLimit(r) ==
    /\ pc[r] = "pending"
    /\ \A q \in Runs : q < r => pc[q] # "pending"
    /\ pc' = [pc EXCEPT ![r] = "start"]
    /\ UNCHANGED << domain, next_ns_list, stage, extract_vars, outcome,
                    records, ns_ip, calls, last, fallbacks, step_fallbacks,
                    complete, world, stage_vars >>

\* executor.submit(stress_test, mode, domain): a free worker thread takes the
\* lookup, the first submitted of those waiting in the executor's queue, and
\* calls iterative_dns_lookup.
WorkerStart(r) ==
    /\ pc[r] = "pending"
    /\ \A q \in Runs : q < r => pc[q] # "pending"
    /\ Cardinality({ q \in Runs : pc[q] \notin { "pending", "done" } }) < max_workers
    /\ pc' = [pc EXCEPT ![r] = "start"]
    /\ UNCHANGED << domain, next_ns_list, stage, extract_vars, outcome,
                    records, ns_ip, calls, last, fallbacks, step_fallbacks,
                    complete, world, stage_vars >>

\* concurrent.futures.wait(futures) returned: print "[STRESS TEST COMPLETE]"
PoolComplete ==
    /\ ~complete
    /\ \A r \in Runs : pc[r] = "done"
    /\ complete' = TRUE
    /\ UNCHANGED << pc, domain, next_ns_list, stage, extract_vars, outcome,
                    records, ns_ip, calls, last, fallbacks, step_fallbacks,
                    world, stage_vars >>

\* What the mocked server `server` replies to a query for `name`: no server
\* knows NoSuchDomain, none replies in time for SlowDomain.
ReplyOf(name, server) ==
    IF name = NoSuchDomain THEN NxDomain
    ELSE IF name = SlowDomain THEN None
    ELSE world.servers[server]

\* What the mocked server queried by run r replies.
MockReply(r) == IF pc[r] = "query" THEN { ReplyOf(domain[r], ns_ip[r]) } ELSE { }

RECURSIVE resolve_hostnames(_, _, _)
\* The third loop of extract_next_nameservers run to its end: for every NS
\* hostname in order, its glue addresses, or else what resolve_ns_name
\* returns (nothing when it is []).
resolve_hostnames(names, d, resolver) ==
    IF names = << >> THEN << >>
    ELSE (IF has_glue(Head(names), d) THEN d[rstrip_dot(Head(names))]
          ELSE resolver[Head(names)])
         \o resolve_hostnames(Tail(names), d, resolver)

\* extract_next_nameservers(response) with the system resolver `resolver`.
extract_next_nameservers(response, resolver) ==
    resolve_hostnames(extract_ns_names(response.authority),
                      extract_additional_a(response.additional, << >>), resolver)

RECURSIVE lookup_loop(_, _, _, _, _)
\* The while loop of iterative_dns_lookup(name) run alone against the mocked
\* network, from the queue `queue` at stage `stg` after the queries
\* `queried`, for at most `fuel` more queries: the outcome reported (none
\* when the fuel ran out), the records, the servers queried and the stage.
lookup_loop(name, queue, stg, queried, fuel) ==
    IF queue = << >> THEN
        [outcome |-> { "failure" }, records |-> << >>, queried |-> queried, stage |-> stg]
    ELSE IF fuel = 0 THEN
        [outcome |-> { }, records |-> << >>, queried |-> queried, stage |-> stg]
    ELSE
        LET server == Head(queue)
            response == ReplyOf(name, server)
            asked == Append(queried, server)
        IN  IF response = None THEN
                lookup_loop(name, Tail(queue), stg, asked, fuel - 1)
            ELSE IF response.rcode # NOERROR THEN
                IF response.rcode = NXDOMAIN THEN
                    [outcome |-> { "nonexistent" }, records |-> << >>,
                     queried |-> asked, stage |-> stg]
                ELSE lookup_loop(name, Tail(queue), stg, asked, fuel - 1)
            ELSE IF response.answer # << >> THEN
                [outcome |-> { "success" }, records |-> Concat(response.answer),
                 queried |-> asked, stage |-> stg]
            ELSE
                LET next == extract_next_nameservers(response, world.resolver)
                IN  IF next = << >> THEN
                        [outcome |-> { "failure" }, records |-> << >>,
                         queried |-> asked, stage |-> stg]
                    ELSE lookup_loop(name, next, NextStage(stg), asked, fuel - 1)

\* iterative_dns_lookup(name) run alone against the mocked network, up to
\* MaxCalls queries.
iterative_dns_lookup(name) == lookup_loop(name, ROOT_SERVERS, "ROOT", << >>, MaxCalls)

\* What the mocked resolver returns to run r.
MockResolved(r) ==
    IF pc[r] = "fallback" THEN { world.resolver[ns_names[r][idx[r]]] } ELSE { }

\* A step of a run against the mocked network.
MockStep(r) == Step(r, MockReply(r), MockResolved(r))

MockNext ==
    \/ \E r \in Runs : WorkerStart(r)
    \/ PoolComplete
    \/ \E r \in Runs : Enter(r)
    \/ \E r \in Runs : Exhausted(r)
    \/ \E r \in Runs : Query(r)
    \/ \E r \in Runs : \E response \in MockReply(r) : TransportFailure(r, response)
    \/ \E r \in Runs : \E response \in MockReply(r) : ProtocolError(r, response)
    \/ \E r \in Runs : \E response \in MockReply(r) : NonExistent(r, response)
    \/ \E r \in Runs : \E response \in MockReply(r) : Success(r, response)
    \/ \E r \in Runs : \E response \in MockReply(r) : Delegation(r, response)
    \/ \E r \in Runs : GlueHit(r)
    \/ \E r \in Runs : FallbackCall(r)
    \/ \E r \in Runs : \E fallback_ips \in MockResolved(r) : FallbackReturn(r, fallback_ips)
    \/ \E r \in Runs : NoNameservers(r)
    \/ \E r \in Runs : FollowDelegation(r)

MockSpec == MockInit /\ [][MockNext]_vars

PoolSpec == PoolInit /\ [][MockNext]_vars

\* The mocked networks of the stress specification: the first root delegates
\* to A1, which answers, or delegates to itself for ever.
StressWorlds ==
    { MockWorld(Referral, None, a1, ServFail, [h \in Hostnames |-> << A2, A1 >>]) :
        a1 \in { Answer, Referral } }

\* run_stress_test("iterative", StressRequests) against a mocked network.
StressInit ==
    /\ InitRuns(1..StressRequests, "pending", { ValidDomain })
    /\ world \in StressWorlds

\* The lookup of run r reports an outcome within MaxCalls queries.
Returns(r) == iterative_dns_lookup(domain[r]).outcome # { }

\* stress_test(mode, domain) in a worker thread, from its call of
\* iterative_dns_lookup to its return: the lookup as a whole, of which the
\* outcome, the records, the stage and the queries made are kept.  A lookup
\* that reports no outcome within MaxCalls queries does not return.
Lookup(r) ==
    LET alone == iterative_dns_lookup(domain[r])
    IN  /\ pc[r] = "start"
        /\ Returns(r)
        /\ pc' = [pc EXCEPT ![r] = "done"]
        /\ outcome' = [outcome EXCEPT ![r] = alone.outcome]
        /\ records' = [records EXCEPT ![r] = alone.records]
        /\ stage' = [stage EXCEPT ![r] = alone.stage]
        /\ calls' = [calls EXCEPT ![r] = Len(alone.queried)]
        /\ ns_ip' = [ns_ip EXCEPT ![r] = alone.queried[Len(alone.queried)]]
        /\ UNCHANGED << domain, next_ns_list, extract_vars, last, fallbacks,
                        step_fallbacks, complete, world, stage_vars >>

StressNext ==
    \/ \E r \in Runs : WorkerStart(r)
    \/ \E r \in Runs : Lookup(r)
    \/ PoolComplete

StressSpec == StressInit /\ [][StressNext]_vars

\* The pooled run against a mocked network takes its next step, and every
\* call it waits for returns.
MockFairSpec == MockSpec /\ WF_vars(MockNext)

\* ------------------------------------------------------------------ claims

\* C1: whatever the servers and the fallback resolver reply, a run of
\* iterative_dns_lookup eventually terminates (every run reaches "done").
C1_Terminates == <>(\A r \in Runs : pc[r] = "done")

\* C2: a reply classified as non-existent, at any stage, ends the run at once
\* with the non-existence outcome alone, whatever the queue still holds: no
\* transport call and no fallback call can follow; and when it is the reply
\* to the first root query (stage ROOT, the root queue untouched) the run has
\* issued exactly one transport call, to the first root, and no fallback call.
C2_NonExistentEndsRun ==
    \A r \in Runs :
        last[r] = "NonExistent" =>
            /\ pc[r] = "done"
            /\ outcome[r] = { "nonexistent" }
            /\ ~ENABLED Query(r)
            /\ ~ENABLED FallbackCall(r)
            /\ (stage[r] = "ROOT" /\ next_ns_list[r] = ROOT_SERVERS) =>
                   /\ calls[r] = 1
                   /\ ns_ip[r] = ROOT_SERVERS[1]
                   /\ fallbacks[r] = 0

\* A run ended by NXDOMAIN at stage TLD with untried candidates in the queue.
C2_Witness ==
    \E r \in Runs :
        /\ last[r] = "NonExistent"
        /\ stage[r] = "TLD"
        /\ Len(next_ns_list[r]) >= 2
        /\ pc[r] = "done"

\* Every root server yields a transport failure for the domain of run r.
AllRootsFail(r) ==
    \A i \in 1..Len(ROOT_SERVERS) : ReplyOf(domain[r], ROOT_SERVERS[i]) = None

\* C3: when every root candidate yields a transport failure, the k-th
\* transport call goes to the k-th root address, no fallback call is made,
\* there are never more calls than root servers, and the run ends with the
\* failure outcome after exactly one call per root server (five).
C3_AllRootsFail ==
    \A r \in Runs :
        AllRootsFail(r) =>
            /\ calls[r] <= Len(ROOT_SERVERS)
            /\ calls[r] >= 1 => ns_ip[r] = ROOT_SERVERS[calls[r]]
            /\ fallbacks[r] = 0
            /\ pc[r] \notin { "extract", "fallback" }
            /\ pc[r] = "done" =>
                   /\ outcome[r] = { "failure" }
                   /\ calls[r] = Len(ROOT_SERVERS)
                   /\ calls[r] = 5
                   /\ ~ENABLED Query(r)
                   /\ ~ENABLED FallbackCall(r)

\* A run of a domain the mocked servers know, ended after all roots failed.
C3_Witness ==
    \E r \in Runs :
        /\ AllRootsFail(r)
        /\ domain[r] = ValidDomain
        /\ pc[r] = "done"
        /\ outcome[r] = { "failure" }

\* Scenario A for run r: the first root replies a delegation whose single NS
\* hostname has the glue address 1.2.3.4, and 1.2.3.4 replies a success
\* whose answer section holds the record 5.6.7.8.
ScenarioA(r) ==
    LET first == ReplyOf(domain[r], ROOT_SERVERS[1])
        second == ReplyOf(domain[r], A1)
    IN  /\ first # None
        /\ first.rcode = NOERROR
        /\ first.answer = << >>
        /\ Len(extract_ns_names(first.authority)) = 1
        /\ LET d == extract_additional_a(first.additional, << >>)
               host == extract_ns_names(first.authority)[1]
           IN  host \in DOMAIN d /\ d[host] = << A1 >>
        /\ second # None
        /\ second.rcode = NOERROR
        /\ second.answer = << << Rec1 >> >>

\* C4: in scenario A the first transport call goes to the first root, the
\* second to 1.2.3.4, there is no third and no fallback call, and the run
\* ends with success reporting exactly the record 5.6.7.8.
C4_ScenarioA ==
    \A r \in Runs :
        ScenarioA(r) =>
            /\ calls[r] <= 2
            /\ fallbacks[r] = 0
            /\ calls[r] = 1 => ns_ip[r] = ROOT_SERVERS[1]
            /\ calls[r] = 2 => ns_ip[r] = A1
            /\ pc[r] = "done" =>
                   /\ outcome[r] = { "success" }
                   /\ records[r] = << Rec1 >>
                   /\ calls[r] = 2

\* A run of scenario A that ended.
C4_Witness ==
    \E r \in Runs : ScenarioA(r) /\ pc[r] = "done" /\ records[r] = << Rec1 >>

\* Every NS hostname of the delegation run r is processing has glue.
AllGlued(r) ==
    \A i \in 1..Len(ns_names[r]) : ns_names[r][i] \in DOMAIN additional_a[r]

\* The additional section holds an A rrset owned by every target of every NS
\* rrset of the authority section.
GlueForEveryTarget(authority, additional) ==
    \A i \in 1..Len(authority) :
        authority[i].rdtype = "NS" =>
            \A j \in 1..Len(authority[i].targets) :
                \E k \in 1..Len(additional) :
                    /\ additional[k].rdtype = "A"
                    /\ additional[k].name = authority[i].targets[j]

\* C5: during a delegation step whose additional section holds an address
\* record for every NS hostname of its authority section, resolve_ns_name is
\* never called; and sections that hold such a record for every NS target
\* give hostnames that all pass the glue test of the step.
C5_GlueNeedsNoFallback ==
    /\ \A r \in Runs :
        (pc[r] \in { "extract", "fallback" } /\ AllGlued(r)) =>
            /\ pc[r] = "extract"
            /\ step_fallbacks[r] = 0
            /\ ~ENABLED FallbackCall(r)
    /\ \A r \in Runs :
        pc[r] = "fallback" =>
            \A authority \in AuthoritySections, additional \in AdditionalSections :
                GlueForEveryTarget(authority, additional) =>
                    LET names == extract_ns_names(authority)
                        d == extract_additional_a(additional, << >>)
                    IN  \A i \in 1..Len(names) : has_glue(names[i], d)

\* A delegation step with two glued NS hostnames, both processed.
C5_Witness ==
    \E r \in Runs :
        /\ pc[r] = "extract"
        /\ AllGlued(r)
        /\ Len(ns_names[r]) = 2
        /\ ns_names[r][1] # ns_names[r][2]
        /\ idx[r] = 3

\* The delegation step of run r has ended with no address.
EmptyDelegation(r) ==
    pc[r] = "extract" /\ idx[r] > Len(ns_names[r]) /\ ns_ips[r] = << >>

\* C6: when the delegation step of a success-coded response without answer
\* has yielded no address, the next step of the run ends it with the failure
\* outcome alone, without a transport or fallback call, whatever candidates
\* the queue of the stage still held; and a run that has ended issues no
\* transport call.
C6_EmptyDelegationFails ==
    /\ [][\A r \in Runs :
            (EmptyDelegation(r) /\ pc'[r] # pc[r]) =>
                /\ pc'[r] = "done"
                /\ outcome'[r] = { "failure" }
                /\ calls'[r] = calls[r]
                /\ fallbacks'[r] = fallbacks[r]]_vars
    /\ [](\A r \in Runs :
            /\ EmptyDelegation(r) => ~ENABLED Query(r) /\ ~ENABLED FallbackCall(r)
            /\ pc[r] = "done" => ~ENABLED Query(r) /\ ~ENABLED FallbackCall(r))

\* A run ended by the empty delegation of the first root queried: four root
\* candidates were never tried.
C6_Witness ==
    \E r \in Runs :
        /\ pc[r] = "done"
        /\ last[r] = "Delegation"
        /\ outcome[r] = { "failure" }
        /\ stage[r] = "ROOT"
        /\ calls[r] = 1

\* The order of the stage labels.
StageRank(s) == CASE s = "ROOT" -> 0 [] s = "TLD" -> 1 [] s = "AUTH" -> 2

\* C7: no step of a run lowers its stage label in the order ROOT < TLD < AUTH.
C7_StageMonotonic ==
    [][\A r \in Runs : StageRank(stage[r]) <= StageRank(stage'[r])]_vars

\* A run that has climbed from ROOT to AUTH and is querying there.
C7_Witness ==
    \E r \in Runs : stage[r] = "AUTH" /\ calls[r] >= 4 /\ pc[r] = "query"

\* C8: a run that has terminated has reported exactly one of the outcomes
\* success (with its records), non-existence or failure, reports nothing
\* more and takes no further step; a run that has not terminated has
\* reported none; a run whose last reply was a transport failure or an error
\* code ends, if it ends, with failure.
C8_ExactlyOneOutcome ==
    \A r \in Runs :
        /\ outcome[r] \subseteq Outcomes
        /\ pc[r] = "done" => Cardinality(outcome[r]) = 1
        /\ pc[r] # "done" => outcome[r] = { } /\ records[r] = << >>
        /\ records[r] # << >> <=> outcome[r] = { "success" }
        /\ pc[r] = "done" => ~ENABLED NetStep(r)
        /\ (pc[r] = "done" /\ last[r] \in { "TransportFailure", "ProtocolError" }) =>
               outcome[r] = { "failure" }

\* A run that ended with failure after a protocol error, having had a failed
\* fallback resolution before.
C8_Witness ==
    \E r \in Runs :
        /\ pc[r] = "done"
        /\ last[r] = "ProtocolError"
        /\ fallbacks[r] > 0
        /\ outcome[r] = { "failure" }

\* The variables run r owns.
Local(r) ==
    << pc[r], domain[r], next_ns_list[r], stage[r], ns_names[r], additional_a[r],
       ns_ips[r], idx[r], outcome[r], records[r], ns_ip[r], calls[r], last[r],
       fallbacks[r], step_fallbacks[r], delegations[r], stage_queue[r],
       stage_calls[r] >>

\* Run r is where the lookup of its domain run alone would be: its k-th query
\* goes to the server the lone lookup queries k-th, and when it has ended it
\* has made the same queries and reports the same outcome, records and stage.
AsRunAlone(r) ==
    LET alone == iterative_dns_lookup(domain[r])
    IN  calls[r] < MaxCalls =>
            /\ calls[r] <= Len(alone.queried)
            /\ calls[r] >= 1 => ns_ip[r] = alone.queried[calls[r]]
            /\ pc[r] = "done" =>
                   /\ calls[r] = Len(alone.queried)
                   /\ outcome[r] = alone.outcome
                   /\ records[r] = alone.records
                   /\ stage[r] = alone.stage

\* C9: under every interleaving of the runs of the pool, a step changes the
\* variables of one run at most and leaves the mocked network (the shared
\* configuration) as it is, and every run issues the queries and reaches
\* the outcome of the same lookup run alone against the same servers.
C9_RunsDoNotInterfere ==
    /\ [][/\ \A r \in Runs :
                Local(r)' # Local(r) => \A q \in Runs \ { r } : Local(q)' = Local(q)
          /\ world' = world]_vars
    /\ [](\A r \in Runs : AsRunAlone(r))

\* Two lookups of the same domain in progress at once: one waits for the
\* reply to its second query, the other is in its first delegation step.
C9_Witness ==
    \E r, q \in Runs :
        /\ r # q
        /\ pc[r] = "query" /\ calls[r] = 2 /\ stage[r] = "TLD"
        /\ pc[q] = "extract" /\ calls[q] = 1
        /\ domain[r] = domain[q]

\* The last reply of run r was a transport failure or an error code other
\* than NXDOMAIN.
CandidateFailed(r) == last[r] \in { "TransportFailure", "ProtocolError" }

\* C10: the step that receives a transport failure or an error code other
\* than NXDOMAIN removes exactly the queried candidate from the head of the
\* queue, keeps the order of the others, the stage label and the domain, and
\* reports no outcome; the run then goes on with the next candidate when one
\* is left, and ends with failure exactly when none is.
C10_DropOnlyTheCandidate ==
    /\ [][\A r \in Runs :
            (pc[r] = "query" /\ CandidateFailed(r)' /\ pc'[r] # "query") =>
                /\ next_ns_list[r] # << >>
                /\ Head(next_ns_list[r]) = ns_ip[r]
                /\ next_ns_list'[r] = Tail(next_ns_list[r])
                /\ stage'[r] = stage[r]
                /\ domain'[r] = domain[r]
                /\ outcome'[r] = { }
                /\ pc'[r] = "loop"]_vars
    /\ [](\A r \in Runs :
            (CandidateFailed(r) /\ pc[r] = "loop") =>
                /\ next_ns_list[r] # << >> => ENABLED Query(r) /\ ~ENABLED Exhausted(r)
                /\ next_ns_list[r] = << >> => ENABLED Exhausted(r) /\ ~ENABLED Query(r))
    /\ [](\A r \in Runs :
            (CandidateFailed(r) /\ pc[r] = "done") =>
                outcome[r] = { "failure" } /\ next_ns_list[r] = << >>)

\* A run that dropped a failed candidate at stage TLD and has candidates left.
C10_Witness ==
    \E r \in Runs :
        /\ CandidateFailed(r)
        /\ pc[r] = "loop"
        /\ stage[r] = "TLD"
        /\ Len(next_ns_list[r]) >= 2

\* `queue` is list without its first k elements, for some k.
IsSuffix(queue, list) ==
    \E k \in 0..Len(list) : queue = SubSeq(list, k + 1, Len(list))

\* C11: the step that ends a delegation step with at least one address makes
\* the queue exactly the list extract_next_nameservers returned, whatever
\* candidates were left untried; the queue changes in no other way than by
\* being seeded with the roots, losing its head after a failed query, or
\* being replaced so; and every query goes to the head of the queue, which is
\* what is left of the list of the latest delegation (of the roots before the
\* first one).
C11_QueueReplacedWholesale ==
    /\ [][\A r \in Runs :
            (pc[r] = "extract" /\ pc'[r] = "loop") =>
                /\ ns_ips[r] # << >>
                /\ next_ns_list'[r] = ns_ips[r]
                /\ stage_queue'[r] = ns_ips[r]]_vars
    /\ [][\A r \in Runs :
            next_ns_list'[r] # next_ns_list[r] =>
                \/ pc[r] = "start" /\ next_ns_list'[r] = ROOT_SERVERS
                \/ pc[r] = "query" /\ next_ns_list'[r] = Tail(next_ns_list[r])
                \/ /\ pc[r] = "extract" /\ idx[r] > Len(ns_names[r])
                   /\ next_ns_list'[r] = ns_ips[r]]_vars
    /\ [](\A r \in Runs :
            /\ pc[r] \in { "loop", "query" } => IsSuffix(next_ns_list[r], stage_queue[r])
            /\ delegations[r] = 0 /\ pc[r] # "start" => stage_queue[r] = ROOT_SERVERS
            /\ pc[r] = "query" =>
                   next_ns_list[r] # << >> /\ ns_ip[r] = Head(next_ns_list[r]))

\* A run whose second root query was answered by a delegation: three roots
\* were left untried, and the third query goes to a delegated address.
C11_Witness ==
    \E r \in Runs :
        /\ pc[r] = "query"
        /\ calls[r] = 3
        /\ delegations[r] = 1
        /\ stage_calls[r] = 1
        /\ ns_ip[r] \in { A1, A2 }

\* The classification the rule order gives a parsed response.
RuleOrder(response) ==
    IF response.rcode = NXDOMAIN THEN "NonExistent"
    ELSE IF response.rcode # NOERROR THEN "ProtocolError"
    ELSE IF response.answer # << >> THEN "Success"
    ELSE "Delegation"

\* The ways run r can handle the reply `response` to its query.
Handlings(r, response) ==
    { k \in { "TransportFailure", "ProtocolError", "NonExistent", "Success", "Delegation" } :
        \/ k = "TransportFailure" /\ ENABLED TransportFailure(r, response)
        \/ k = "ProtocolError" /\ ENABLED ProtocolError(r, response)
        \/ k = "NonExistent" /\ ENABLED NonExistent(r, response)
        \/ k = "Success" /\ ENABLED Success(r, response)
        \/ k = "Delegation" /\ ENABLED Delegation(r, response) }

\* C12: a run waiting for a reply handles every parsed response, whatever its
\* code and sections hold, in the one way the rule order gives it: NXDOMAIN is
\* non-existence, any other error code a protocol error, NOERROR with an
\* answer success, NOERROR without an answer a delegation step; and the
\* handling has the effect of its kind: non-existence and success end the
\* run with that outcome, a protocol error drops the candidate, a delegation
\* enters the delegation step.
C12_RuleOrder ==
    /\ [](\A r \in Runs :
            pc[r] = "query" =>
                \A response \in Responses :
                    Handlings(r, response) = { RuleOrder(response) })
    /\ [][\A r \in Runs :
            (pc[r] = "query" /\ pc'[r] # "query") =>
                /\ last'[r] = "NonExistent" =>
                       pc'[r] = "done" /\ outcome'[r] = { "nonexistent" }
                /\ last'[r] = "ProtocolError" =>
                       pc'[r] = "loop" /\ outcome'[r] = { } /\ stage'[r] = stage[r]
                /\ last'[r] = "Success" =>
                       pc'[r] = "done" /\ outcome'[r] = { "success" } /\ records'[r] # << >>
                /\ last'[r] = "Delegation" =>
                       pc'[r] = "extract" /\ outcome'[r] = { }]_vars

\* A run that took an error code as a protocol error at stage TLD and waits
\* for the reply of the next candidate.
C12_Witness ==
    \E r \in Runs :
        /\ pc[r] = "query"
        /\ last[r] = "ProtocolError"
        /\ stage[r] = "TLD"
        /\ stage_calls[r] = 2

\* What the NS hostname `host` contributes to the next-hop list of run r: its
\* glue addresses when the glue dict has it, else what the resolver returns.
Contribution(r, host) ==
    IF host \in DOMAIN additional_a[r] THEN additional_a[r][host]
    ELSE world.resolver[host]

\* The contributions of the first n NS hostnames of the delegation step of run
\* r, in encounter order.
Contributions(r, n) ==
    Concat([i \in 1..n |-> Contribution(r, ns_names[r][i])])

\* C13: throughout a delegation step the list built so far is the
\* concatenation, in the encounter order of the NS hostnames, of the
\* contribution of every hostname already processed, with every repetition
\* kept; the NS hostnames are the NS targets of the authority section of the
\* response in encounter order; and the queue a followed delegation leaves is
\* the concatenation over all of them.
C13_NextHopsConcatenated ==
    /\ [](\A r \in Runs :
            pc[r] \in { "extract", "fallback" } =>
                /\ ns_names[r] = extract_ns_names(ReplyOf(domain[r], ns_ip[r]).authority)
                /\ idx[r] \in 1..(Len(ns_names[r]) + 1)
                /\ ns_ips[r] = Contributions(r, idx[r] - 1)
                /\ (pc[r] = "extract" /\ idx[r] > Len(ns_names[r])) =>
                       ns_ips[r] = extract_next_nameservers(
                                       ReplyOf(domain[r], ns_ip[r]), world.resolver))
    /\ [][\A r \in Runs :
            (pc[r] = "extract" /\ pc'[r] = "loop") =>
                next_ns_list'[r] = Contributions(r, Len(ns_names[r]))]_vars

\* A followed delegation whose first NS hostname gave its glue address and
\* whose second gave, through the fallback, that address again behind
\* another: the address is in the queue twice.
C13_Witness ==
    \E r \in Runs :
        /\ pc[r] = "loop"
        /\ last[r] = "Delegation"
        /\ next_ns_list[r] = << A1, A2, A1 >>
        /\ fallbacks[r] = 1

\* The NS hostname `host` of the delegation step of run r has neither glue
\* nor a successful fallback resolution.
HostnameFails(r, host) ==
    host \notin DOMAIN additional_a[r] /\ world.resolver[host] = << >>

\* C14: the return of a failed fallback resolution leaves the list as it is,
\* moves on to the next NS hostname and does not end the run; while NS
\* hostnames are left the step goes on with the next one and cannot end; the
\* list of a finished delegation step is empty exactly when every NS
\* hostname fails; and the run ends with failure at that point exactly when
\* the list is empty.
C14_FailedFallbackNotFatal ==
    /\ [][\A r \in Runs :
            (pc[r] = "fallback" /\ pc'[r] # "fallback"
                /\ world.resolver[ns_names[r][idx[r]]] = << >>) =>
                /\ ns_ips'[r] = ns_ips[r]
                /\ idx'[r] = idx[r] + 1
                /\ pc'[r] = "extract"
                /\ outcome'[r] = { }]_vars
    /\ [](\A r \in Runs :
            (pc[r] = "extract" /\ idx[r] <= Len(ns_names[r])) =>
                /\ ENABLED GlueHit(r) \/ ENABLED FallbackCall(r)
                /\ ~ENABLED NoNameservers(r)
                /\ ~ENABLED FollowDelegation(r))
    /\ [](\A r \in Runs :
            (pc[r] = "extract" /\ idx[r] > Len(ns_names[r])) =>
                /\ ns_ips[r] = << >> <=>
                       \A i \in 1..Len(ns_names[r]) : HostnameFails(r, ns_names[r][i])
                /\ ns_ips[r] = << >> <=> ENABLED NoNameservers(r)
                /\ ns_ips[r] # << >> <=> ENABLED FollowDelegation(r))

\* A finished delegation step of two NS hostnames without glue: the fallback
\* resolution of the first failed, that of the second gave the addresses.
C14_Witness ==
    \E r \in Runs :
        /\ pc[r] = "extract"
        /\ idx[r] = 3
        /\ step_fallbacks[r] = 2
        /\ world.resolver[ns_names[r][1]] = << >>
        /\ ns_ips[r] = << A2, A1 >>

\* Run r waits for send_dns_query, or for resolve_ns_name, to return.
TransportInFlight(r) == pc[r] = "query"
FallbackInFlight(r) == pc[r] = "fallback"

\* C15: a run issues a transport call only from the head of its loop, with
\* no call in flight and no delegation step going on: the reply to the call
\* before (if any) was handled to its end, by dropping the candidate or by a
\* delegation step whose hostnames were all processed; a fallback call is
\* issued only inside a delegation step, never while a transport call or
\* another fallback call is in flight; and while a call is in flight or a
\* delegation step goes on no transport call can be issued.
C15_OneQueryInFlight ==
    /\ [][\A r \in Runs :
            /\ (~TransportInFlight(r) /\ TransportInFlight(r)') =>
                   /\ pc[r] = "loop"
                   /\ ns_names[r] = << >> /\ ns_ips[r] = << >> /\ idx[r] = 1
                   /\ calls[r] >= 1 =>
                          \/ CandidateFailed(r) /\ stage_calls[r] >= 1
                          \/ last[r] = "Delegation" /\ stage_calls[r] = 0
            /\ (~FallbackInFlight(r) /\ FallbackInFlight(r)') =>
                   pc[r] = "extract" /\ last[r] = "Delegation"
            /\ (pc[r] = "extract" /\ pc'[r] \notin { "extract", "fallback" }) =>
                   idx[r] > Len(ns_names[r])]_vars
    /\ [](\A r \in Runs :
            /\ pc[r] \in { "query", "extract", "fallback", "done" } => ~ENABLED Query(r)
            /\ pc[r] \in { "loop", "query", "fallback", "done" } => ~ENABLED FallbackCall(r))

\* A fallback call in flight after two transport calls, with a candidate
\* still waiting in the queue.
C15_Witness ==
    \E r \in Runs :
        /\ FallbackInFlight(r)
        /\ calls[r] = 2
        /\ Len(next_ns_list[r]) >= 2

RECURSIVE DelegatesOn(_, _, _)
\* Queried for `name`, `server` replies a delegation with at least one
\* next-hop address, and so does the first of these addresses, and so on for
\* `hops` servers.
DelegatesOn(name, server, hops) ==
    \/ hops = 0
    \/ LET response == ReplyOf(name, server)
       IN  /\ response # None
           /\ response.rcode = NOERROR
           /\ response.answer = << >>
           /\ LET next == extract_next_nameservers(response, world.resolver)
              IN  next # << >> /\ DelegatesOn(name, Head(next), hops - 1)

\* The delegation chain of the lookup of run r is cyclic: from the first
\* root on, more servers in a row than there are servers reply a non-empty
\* delegation, so the chain comes back to a server it has been at.
CyclicDelegation(r) == DelegatesOn(domain[r], ROOT_SERVERS[1], Cardinality(Servers) + 1)

\* C16: under a cyclic delegation chain the run never reaches a terminal
\* outcome, follows as many delegations as are counted (MaxDelegations, and
\* as many transport calls as are counted), and goes on querying for ever.
C16_NoDepthBound ==
    /\ [](\A r \in Runs :
            CyclicDelegation(r) => pc[r] # "done" /\ outcome[r] = { })
    /\ <>(\A r \in Runs :
            CyclicDelegation(r) =>
                delegations[r] = MaxDelegations /\ calls[r] = MaxCalls)
    /\ []<>(\A r \in Runs : CyclicDelegation(r) => pc[r] = "query")
    /\ []<>(\A r \in Runs : CyclicDelegation(r) => pc[r] = "extract")

\* A run under a cyclic delegation chain that has followed MaxDelegations
\* delegations and issues yet another query, at the stage AUTH.
C16_Witness ==
    \E r \in Runs :
        /\ CyclicDelegation(r)
        /\ delegations[r] = MaxDelegations
        /\ calls[r] = MaxCalls
        /\ stage[r] = "AUTH"
        /\ pc[r] = "query"

\* The stage label of a run that has followed n delegations.
LabelAfter(n) == IF n = 0 THEN "ROOT" ELSE IF n = 1 THEN "TLD" ELSE "AUTH"

\* C17: in every state the stage label of a run is ROOT when it has followed
\* no delegation, TLD when it has followed exactly one, AUTH when two or
\* more; a delegation is followed, and the label changes if at all, only in
\* the step that ends a delegation step with at least one address; the step
\* that drops a failed candidate keeps the label.
C17_StageCountsDelegations ==
    /\ [](\A r \in Runs : stage[r] = LabelAfter(delegations[r]))
    /\ [][\A r \in Runs :
            /\ (stage'[r] # stage[r] \/ delegations'[r] # delegations[r]) =>
                   /\ pc[r] = "extract" /\ pc'[r] = "loop"
                   /\ idx[r] > Len(ns_names[r])
                   /\ ns_ips[r] # << >>
            /\ (pc[r] = "extract" /\ pc'[r] = "loop") =>
                   /\ delegations[r] < MaxDelegations =>
                          delegations'[r] = delegations[r] + 1
                   /\ stage'[r] = LabelAfter(delegations'[r])
            /\ (pc[r] = "query" /\ CandidateFailed(r)' /\ pc'[r] = "loop") =>
                   stage'[r] = stage[r] /\ delegations'[r] = delegations[r]]_vars

\* A run that has followed MaxDelegations delegations and dropped a failed
\* candidate at the stage AUTH.
C17_Witness ==
    \E r \in Runs :
        /\ delegations[r] = MaxDelegations
        /\ stage[r] = "AUTH"
        /\ CandidateFailed(r)
        /\ pc[r] = "loop"
        /\ stage_calls[r] = 1

\* C18: the transport calls a run has made at its current stage are never
\* more than the candidates of the queue the stage started with; the k-th of
\* them goes to the k-th candidate of that queue, the candidates behind it
\* still waiting in their order; and a call that is not the first of the
\* stage is issued only after the call before it yielded a transport
\* failure or a protocol error.
C18_QueueOrder ==
    /\ [](\A r \in Runs :
            /\ stage_calls[r] <= Len(stage_queue[r])
            /\ pc[r] = "query" =>
                   /\ stage_calls[r] >= 1
                   /\ ns_ip[r] = stage_queue[r][stage_calls[r]]
                   /\ next_ns_list[r] =
                          SubSeq(stage_queue[r], stage_calls[r], Len(stage_queue[r]))
            /\ pc[r] = "loop" =>
                   next_ns_list[r] =
                       SubSeq(stage_queue[r], stage_calls[r] + 1, Len(stage_queue[r])))
    /\ [][\A r \in Runs :
            (pc[r] # "query" /\ pc'[r] = "query") =>
                /\ stage_calls'[r] = stage_calls[r] + 1
                /\ stage_queue'[r] = stage_queue[r]
                /\ stage_calls[r] >= 1 => CandidateFailed(r)]_vars

\* A run querying the third and last candidate of the queue its stage TLD
\* started with.
C18_Witness ==
    \E r \in Runs :
        /\ pc[r] = "query"
        /\ stage[r] = "TLD"
        /\ Len(stage_queue[r]) = 3
        /\ stage_calls[r] = 3

\* The elements of a list.
Elements(list) == { list[k] : k \in 1..Len(list) }

\* The targets of the NS records of an authority section.
NSTargets(authority) ==
    UNION { Elements(authority[i].targets) :
              i \in { j \in 1..Len(authority) : authority[j].rdtype = "NS" } }

\* The address records of the additional section owned by `target`.
GlueOf(target, additional) ==
    UNION { Elements(additional[k].addresses) :
              k \in { j \in 1..Len(additional) :
                        additional[j].rdtype = "A" /\ additional[j].name = target } }

\* `address` belongs to an NS hostname of `response`: it is a glue address of
\* the target of an NS record or, the target having none, an address the
\* resolver gives for it.
BelongsToNS(address, response) ==
    \E target \in NSTargets(response.authority) :
        IF GlueOf(target, response.additional) # { }
        THEN address \in GlueOf(target, response.additional)
        ELSE address \in Elements(world.resolver[Normalize(target)])

\* The response run r handles, or handled last: the reply to its last query.
LastResponse(r) == ReplyOf(domain[r], ns_ip[r])

\* C19: every address a delegation step collects, and every address of the
\* queue a followed delegation leaves, belongs to the target of an NS record
\* of the authority section of the response; every later query of the stage
\* goes to an address of that queue; and the delegation step of a response
\* whose authority section holds no NS record makes no fallback call and
\* ends with an empty list, the run failing.
C19_OnlyNSHostnames ==
    /\ [](\A r \in Runs :
            pc[r] \in { "extract", "fallback" } =>
                /\ \A k \in 1..Len(ns_ips[r]) : BelongsToNS(ns_ips[r][k], LastResponse(r))
                /\ NSTargets(LastResponse(r).authority) = { } =>
                       /\ pc[r] = "extract"
                       /\ ns_ips[r] = << >>
                       /\ step_fallbacks[r] = 0
                       /\ ~ENABLED FallbackCall(r)
                       /\ ~ENABLED FollowDelegation(r)
                       /\ ENABLED NoNameservers(r))
    /\ [](\A r \in Runs :
            /\ (pc[r] = "loop" /\ last[r] = "Delegation") =>
                   /\ next_ns_list[r] = stage_queue[r]
                   /\ \A k \in 1..Len(stage_queue[r]) :
                          BelongsToNS(stage_queue[r][k], LastResponse(r))
            /\ pc[r] = "query" => ns_ip[r] \in Elements(stage_queue[r]))

\* A run whose first root replied a delegation to one NS hostname with its
\* glue address and the address record of a name that is no NS target: the
\* second query goes to the glue address, the only candidate of the stage.
C19_Witness ==
    \E r \in Runs :
        /\ ReplyOf(domain[r], ROOT_SERVERS[1]) = StrayGlue
        /\ pc[r] = "query"
        /\ calls[r] = 2
        /\ ns_ip[r] = A1
        /\ stage_queue[r] = << A1 >>

\* The lookups a worker thread has taken and not yet returned from.
InProgress == { r \in Runs : pc[r] \notin { "pending", "done" } }

====
